---------------------------- MODULE Spec2Model ----------------------------
(***************************************************************************)
(* Model of the Xbox Live Communicator USB device (hw/xbox/xblc.c): the    *)
(* device state USBXBLCState, its two host audio streams, the control and  *)
(* isochronous data handlers, reset, realize / unrealize and the migration *)
(* record usb_xblc_vmstate.                                                *)
(*                                                                         *)
(* The device model runs on one emulation thread: its handlers never       *)
(* overlap.  The audio backend runs on its own thread: it appends to the   *)
(* capture stream and drains the playback stream at any moment, also       *)
(* between two backend calls of one handler.  The capture-direction data   *)
(* handler is therefore modelled in steps (query, one step per pull of the *)
(* loop, final skip); every other handler is one atomic action.            *)
(*                                                                         *)
(* A failed assert() or a crash ends the process: aborted becomes TRUE and *)
(* no action is enabled any more.                                          *)
(***************************************************************************)
EXTENDS Integers, Sequences, FiniteSets

VARIABLES
    phase,              \* lifecycle of the instance: constructed/realized/unrealized
    auto_gain_control,  \* USBXBLCState.auto_gain_control
    sample_rate,        \* USBXBLCState.sample_rate
    in,                 \* USBXBLCState.in  : stream handle or NULL
    out,                \* USBXBLCState.out : stream handle or NULL
    streams,            \* the audio backend's streams, by handle
    nalloc,             \* number of stream handles the backend has handed out
    p,                  \* the USBPacket of the current / last transfer
    pc,                 \* position of the emulation thread: idle, loop / skip (inside
                        \* handle_data IN), done (a handler is returning)
    to_process,         \* local of usb_xblc_handle_data
    copied,             \* local of usb_xblc_handle_data
    available,          \* local of usb_xblc_handle_data
    aborted,            \* the process was ended by a failed assert or a crash
    vm_record,          \* the record written by the last snapshot, or NoRecord
    snap_rate,          \* history: sample_rate at the time of the last snapshot
    restoring,          \* a restore is in progress (instance recreated, record not yet loaded)
    op,                 \* history: the operation that is running or returning
    n_in                \* history: number of capture-direction transfers handled

vars == <<phase, auto_gain_control, sample_rate, in, out, streams, nalloc, p, pc,
          to_process, copied, available, aborted, vm_record, snap_rate, restoring,
          op, n_in>>

dev_vars == <<phase, auto_gain_control, sample_rate, in, out>>
loc_vars == <<to_process, copied, available>>
mig_vars == <<vm_record, snap_rate, restoring, n_in>>

----------------------------------------------------------------------------
(* Bounds of the model *)

\* stream handles the backend can hand out in one run
MaxStreams == 4
\* capture-direction transfers handled in one run
MaxCaptureTransfers == 2
\* playback bytes the backend lets queue up before the model stops pushing
MaxPlaybackBuf == 100
\* pulls of one capture transfer that deliver no byte
MaxEmptyPulls == 1

\* buffered byte counts the capture backend fills the capture stream up to
CaptureLevels == {10, 50, 1600, 1648}
\* requested lengths of isochronous transfers (p->iov.size)
Sizes == {48, 100}
\* wValue of control requests: rate indexes 0..4, out of range 5, and 260 = 0x104
Values == {0, 1, 2, 3, 4, 5, 260}
\* wIndex of control requests
Indexes == {0, 1, 2}

----------------------------------------------------------------------------
(* Program constants *)

NULL == 0
XBLC_EP_OUT == 4
XBLC_EP_IN == 5
XBLC_SET_SAMPLE_RATE == 0
XBLC_SET_AGC == 1
XBLC_MAX_PACKET == 48
XBLC_QUEUE_SIZE_MS == 100
XBLC_BYTES_PER_SAMPLE == 2
XBLC_DEFAULT_SAMPLE_RATE == 16000

\* variant: a table whose last entry is 44100
xblc_sample_rates_44100 == <<8000, 11025, 16000, 22050, 44100>>

xblc_sample_rates == <<8000, 11025, 16000, 22050, 24000>>

\* VendorInterfaceOutRequest | USB_REQ_SET_FEATURE = ((0x40 | 0x01) << 8) | 0x03
SetFeatureRequest == 16643
\* VendorInterfaceOutRequest | USB_REQ_CLEAR_FEATURE: a vendor request the device does not know
ClearFeatureRequest == 16641
\* DeviceRequest | USB_REQ_GET_DESCRIPTOR: a standard request of the descriptor handler
GetDescriptorRequest == 32774
Requests == {SetFeatureRequest, ClearFeatureRequest, GetDescriptorRequest}

Min(a, b) == IF a < b THEN a ELSE b

----------------------------------------------------------------------------
(* The audio backend: streams by handle *)

Handles == 1..MaxStreams

\* destroys counts the SDL_DestroyAudioStream calls a handle has received
NoStream == [state |-> "unused", capture |-> FALSE, channels |-> 0, freq |-> 0,
             format |-> "none", buf |-> 0, running |-> FALSE, destroys |-> 0]
DeadStream == [state |-> "destroyed", capture |-> FALSE, channels |-> 0, freq |-> 0,
               format |-> "none", buf |-> 0, running |-> FALSE, destroys |-> 1]

\* variant: a two-channel format
SDL_AudioSpec_stereo(freq) == [channels |-> 2, freq |-> freq, format |-> "S16LE"]

\* SDL_AudioSpec spec = { .channels = 1, .freq = ..., .format = SDL_AUDIO_S16LE }
SDL_AudioSpec(freq) == [channels |-> 1, freq |-> freq, format |-> "S16LE"]

\* SDL_OpenAudioDeviceStream followed by SDL_ResumeAudioStreamDevice
SDL_OpenAudioDeviceStream(st, h, capture, freq) ==
    LET spec == SDL_AudioSpec(freq)
    IN [st EXCEPT ![h] = [state |-> "open", capture |-> capture,
                          channels |-> spec.channels, freq |-> spec.freq,
                          format |-> spec.format, buf |-> 0, running |-> TRUE,
                          destroys |-> 0]]

SDL_ClearAudioStream(st, h) == [st EXCEPT ![h].buf = 0]

\* SDL_SetAudioStreamFormat(stream, &spec, &spec)
SDL_SetAudioStreamFormat(st, h, freq) ==
    LET spec == SDL_AudioSpec(freq)
    IN [st EXCEPT ![h].channels = spec.channels, ![h].freq = spec.freq,
                  ![h].format = spec.format]

\* the stream is gone; a call on a handle already destroyed is counted too
SDL_DestroyAudioStream(st, h) ==
    [st EXCEPT ![h] = [DeadStream EXCEPT !.destroys = st[h].destroys + 1]]

----------------------------------------------------------------------------
(* Initial state: a constructed instance, its memory zeroed *)

NoPacket == [pid |-> "NONE", nr |-> 0, size |-> 0, actual_length |-> 0,
             skipped |-> 0, status |-> "SUCCESS"]
NoRecord == [taken |-> FALSE]

Init ==
    /\ phase = "constructed"
    /\ auto_gain_control = 0
    /\ sample_rate = 0
    /\ in = NULL
    /\ out = NULL
    /\ streams = [h \in Handles |-> NoStream]
    /\ nalloc = 0
    /\ p = NoPacket
    /\ pc = "idle"
    /\ to_process = 0
    /\ copied = 0
    /\ available = 0
    /\ aborted = FALSE
    /\ vm_record = NoRecord
    /\ snap_rate = 0
    /\ restoring = FALSE
    /\ op = [name |-> "none"]
    /\ n_in = 0

\* an operation that handles no transfer: no packet, and the locals of
\* usb_xblc_handle_data are dead
NoTransfer ==
    /\ p' = NoPacket
    /\ to_process' = 0
    /\ copied' = 0
    /\ available' = 0

\* the emulation thread may enter a handler of the realized device
Idle == /\ ~aborted
        /\ phase = "realized"
        /\ ~restoring
        /\ pc = "idle"

----------------------------------------------------------------------------
(* usb_xblc_handle_reset *)

\* bytes buffered in the device's channels
Buffered(h) == IF h # NULL THEN streams[h].buf ELSE 0

\* variant: only the capture stream is cleared
reset_streams_capture_only ==
    IF in # NULL THEN SDL_ClearAudioStream(streams, in) ELSE streams

\* lines 159-164: the streams after both clears
reset_streams ==
    LET st1 == IF in # NULL THEN SDL_ClearAudioStream(streams, in) ELSE streams
        st2 == IF out # NULL THEN SDL_ClearAudioStream(st1, out) ELSE st1
    IN st2

usb_xblc_handle_reset ==
    /\ Idle
    /\ streams' = reset_streams
    /\ op' = [name |-> "reset", discarded |-> Buffered(in) + Buffered(out)]
    /\ NoTransfer
    /\ pc' = "done"
    /\ UNCHANGED <<dev_vars, nalloc, aborted, mig_vars>>

----------------------------------------------------------------------------
(* xblc_audio_stream_set_rate: the new rate and the reformatted streams *)

\* variant: only the capture stream is reformatted
xblc_audio_stream_set_rate_capture_only(st, rate) ==
    LET st1 == IF in # NULL THEN SDL_SetAudioStreamFormat(st, in, rate) ELSE st
    IN [sample_rate |-> rate, streams |-> st1]

\* variant: each reformatted stream is also emptied
xblc_audio_stream_set_rate_flush(st, rate) ==
    LET st1 == IF in # NULL
               THEN SDL_ClearAudioStream(SDL_SetAudioStreamFormat(st, in, rate), in)
               ELSE st
        st2 == IF out # NULL
               THEN SDL_ClearAudioStream(SDL_SetAudioStreamFormat(st1, out, rate), out)
               ELSE st1
    IN [sample_rate |-> rate, streams |-> st2]

xblc_audio_stream_set_rate(st, rate) ==
    LET st1 == IF in # NULL THEN SDL_SetAudioStreamFormat(st, in, rate) ELSE st
        st2 == IF out # NULL THEN SDL_SetAudioStreamFormat(st1, out, rate) ELSE st1
    IN [sample_rate |-> rate, streams |-> st2]

----------------------------------------------------------------------------
(* usb_xblc_handle_control *)

\* usb_desc_handle_control(...) >= 0: the generic handler knows only standard
\* requests, and may reject those too (desc_ok = FALSE)
usb_desc_handle_control(request, desc_ok) ==
    request = GetDescriptorRequest /\ desc_ok

\* uint8_t rate = value & 0xFF
RateIndex(value) == value % 256

\* variant: the flag is the value's lowest bit
AgcValue_low_bit(value) == value % 2

\* (value) ? 1 : 0
AgcValue(value) == IF value # 0 THEN 1 ELSE 0

ControlPacket(status) ==
    [pid |-> "SETUP", nr |-> 0, size |-> 0, actual_length |-> 0,
     skipped |-> 0, status |-> status]

\* history of a control request: which vendor feature it set (-1: none), and
\* for a feature request its value and the rate it found
ControlOp(request, value, index, desc_ok) ==
    IF /\ ~usb_desc_handle_control(request, desc_ok)
       /\ request = SetFeatureRequest
       /\ index \in {XBLC_SET_SAMPLE_RATE, XBLC_SET_AGC}
    THEN [name |-> "control", feature |-> index, value |-> value,
          rate_before |-> sample_rate]
    ELSE [name |-> "control", feature |-> -1, value |-> 0, rate_before |-> 0]

handle_control(request, value, index, desc_ok) ==
    /\ op' = ControlOp(request, value, index, desc_ok)
    /\ IF usb_desc_handle_control(request, desc_ok)
       THEN /\ p' = ControlPacket("SUCCESS")
            /\ UNCHANGED <<sample_rate, auto_gain_control, streams, aborted>>
       ELSE IF request = SetFeatureRequest /\ index = XBLC_SET_SAMPLE_RATE
       THEN IF RateIndex(value) < Len(xblc_sample_rates)
            THEN LET r == xblc_audio_stream_set_rate(
                              streams, xblc_sample_rates[RateIndex(value) + 1])
                 IN /\ sample_rate' = r.sample_rate
                    /\ streams' = r.streams
                    /\ p' = ControlPacket("SUCCESS")
                    /\ UNCHANGED <<auto_gain_control, aborted>>
            ELSE \* assert(rate < ARRAY_SIZE(xblc_sample_rates)) fails
                 /\ aborted' = TRUE
                 /\ p' = ControlPacket("SUCCESS")
                 /\ UNCHANGED <<sample_rate, auto_gain_control, streams>>
       ELSE IF request = SetFeatureRequest /\ index = XBLC_SET_AGC
       THEN /\ auto_gain_control' = AgcValue(value)
            /\ p' = ControlPacket("SUCCESS")
            /\ UNCHANGED <<sample_rate, streams, aborted>>
       ELSE \* default: p->status = USB_RET_STALL; assert(!"USB stalled on request")
            /\ p' = ControlPacket("STALL")
            /\ aborted' = TRUE
            /\ UNCHANGED <<sample_rate, auto_gain_control, streams>>
    /\ to_process' = 0
    /\ copied' = 0
    /\ available' = 0
    /\ pc' = "done"
    /\ UNCHANGED <<phase, in, out, nalloc, mig_vars>>

usb_xblc_handle_control ==
    /\ Idle
    /\ \E request \in Requests, value \in Values, index \in Indexes, desc_ok \in BOOLEAN :
          /\ (request # GetDescriptorRequest) => desc_ok
          /\ handle_control(request, value, index, desc_ok)

----------------------------------------------------------------------------
(* usb_xblc_handle_data, USB_TOKEN_OUT *)

\* variant: one endpoint packet is pushed at most
PushedBytes_one_packet(size) == Min(size, XBLC_MAX_PACKET)

\* the length handed to SDL_PutAudioStreamData: p->iov.size
PushedBytes(size) == size

handle_data_OUT(nr, size, push_ok) ==
    /\ op' = [name |-> "data_out"]
    /\ p' = [pid |-> "OUT", nr |-> nr, size |-> size, actual_length |-> 0,
             skipped |-> 0, status |-> "SUCCESS"]
    /\ IF nr # XBLC_EP_OUT
       THEN \* assert(p->ep->nr == XBLC_EP_OUT) fails
            /\ aborted' = TRUE
            /\ UNCHANGED streams
       ELSE IF out = NULL
       THEN UNCHANGED <<streams, aborted>>
       ELSE \* SDL_PutAudioStreamData(s->out, p->iov.iov->iov_base, p->iov.size)
            /\ streams' = IF push_ok
                          THEN [streams EXCEPT ![out].buf = @ + PushedBytes(size)]
                          ELSE streams
            /\ UNCHANGED aborted
    /\ to_process' = 0
    /\ copied' = 0
    /\ available' = 0
    /\ pc' = "done"
    /\ UNCHANGED <<dev_vars, nalloc, mig_vars>>

usb_xblc_handle_data_OUT ==
    /\ Idle
    /\ \E nr \in {XBLC_EP_OUT, XBLC_EP_IN}, size \in Sizes, push_ok \in BOOLEAN :
          /\ (nr # XBLC_EP_OUT \/ out = NULL) => push_ok
          /\ (nr = XBLC_EP_OUT /\ out # NULL /\ push_ok)
                => streams[out].buf + size <= MaxPlaybackBuf
          /\ handle_data_OUT(nr, size, push_ok)

----------------------------------------------------------------------------
(* usb_xblc_handle_data, USB_TOKEN_IN: query, pull loop, skip *)

\* max_queued_data = s->sample_rate * XBLC_BYTES_PER_SAMPLE * XBLC_QUEUE_SIZE_MS / 1000
max_queued_data(rate) == (rate * XBLC_BYTES_PER_SAMPLE * XBLC_QUEUE_SIZE_MS) \div 1000

\* variant: the comparison written as >=
Overflow_inclusive(avail, rate) == avail >= max_queued_data(rate)

\* if (available > max_queued_data)
Overflow(avail, rate) == avail > max_queued_data(rate)

\* lines 229-257: endpoint assert, null check, available query, overflow policy
handle_data_IN_query(nr, size, query_ok) ==
    /\ op' = [name |-> "data_in",
              discarded |-> IF nr = XBLC_EP_IN /\ in # NULL /\ query_ok
                               /\ Overflow(streams[in].buf, sample_rate)
                            THEN streams[in].buf ELSE 0,
              pull_failed |-> FALSE, empty_pulls |-> 0]
    /\ p' = [pid |-> "IN", nr |-> nr, size |-> size, actual_length |-> 0,
             skipped |-> 0, status |-> "SUCCESS"]
    /\ IF nr # XBLC_EP_IN
       THEN \* assert(p->ep->nr == XBLC_EP_IN) fails
            /\ aborted' = TRUE
            /\ to_process' = 0 /\ copied' = 0 /\ available' = 0
            /\ pc' = "done"
            /\ UNCHANGED streams
       ELSE IF in = NULL
       THEN \* break: leaves the switch, nothing copied, nothing skipped
            /\ to_process' = 0 /\ copied' = 0 /\ available' = 0
            /\ pc' = "done"
            /\ UNCHANGED <<streams, aborted>>
       ELSE IF ~query_ok
       THEN \* SDL_GetAudioStreamAvailable(s->in) < 0: break
            /\ available' = -1
            /\ to_process' = 0 /\ copied' = 0
            /\ pc' = "done"
            /\ UNCHANGED <<streams, aborted>>
       ELSE LET avail == streams[in].buf
                over == Overflow(avail, sample_rate)
            IN /\ streams' = IF over THEN SDL_ClearAudioStream(streams, in) ELSE streams
               /\ available' = IF over THEN 0 ELSE avail
               /\ to_process' = Min(size, available')
               /\ copied' = 0
               /\ pc' = "loop"
               /\ UNCHANGED aborted
    /\ n_in' = n_in + 1
    /\ UNCHANGED <<dev_vars, nalloc, vm_record, snap_rate, restoring>>

usb_xblc_handle_data_IN ==
    /\ Idle
    /\ n_in < MaxCaptureTransfers
    /\ \E nr \in {XBLC_EP_OUT, XBLC_EP_IN}, size \in Sizes, query_ok \in BOOLEAN :
          /\ (nr # XBLC_EP_IN \/ in = NULL) => query_ok
          /\ handle_data_IN_query(nr, size, query_ok)

\* the size asked of SDL_GetAudioStreamData: MIN(sizeof(packet), to_process)
PullSize == Min(XBLC_MAX_PACKET, to_process)

\* the outcomes of SDL_GetAudioStreamData(s->in, packet, len): -1 on error,
\* else the number of bytes it delivered, which is what is queued up to len,
\* or 0 when the stream delivers nothing at this moment
PullOutcomes == {"error", "empty", "data"}

\* lines 258-268: one iteration of while (copied < to_process)
handle_data_IN_pull(pull) ==
    /\ op' = [op EXCEPT !.pull_failed = (pull = "error"),
                        !.empty_pulls = IF pull = "empty" THEN @ + 1 ELSE @]
    /\ IF pull = "error"
       THEN \* chunk_len < 0: break
            /\ pc' = "skip"
            /\ UNCHANGED <<streams, p, copied, aborted>>
       ELSE LET chunk_len == IF pull = "empty" THEN 0
                             ELSE Min(PullSize, streams[in].buf)
            IN /\ streams' = [streams EXCEPT ![in].buf = @ - chunk_len]
               /\ IF p.actual_length + chunk_len > p.size
                  THEN \* usb_packet_copy: assert(p->actual_length + bytes <= iov->size)
                       /\ aborted' = TRUE
                       /\ UNCHANGED <<p, copied, pc>>
                  ELSE \* copied += chunk_len, and back to the loop condition
                       /\ p' = [p EXCEPT !.actual_length = @ + chunk_len]
                       /\ copied' = copied + chunk_len
                       /\ UNCHANGED <<pc, aborted>>
    /\ UNCHANGED <<dev_vars, nalloc, to_process, available, mig_vars>>

usb_xblc_handle_data_IN_pull ==
    /\ ~aborted
    /\ pc = "loop"
    /\ copied < to_process
    /\ \E pull \in PullOutcomes :
          /\ (pull = "empty") => op.empty_pulls < MaxEmptyPulls
          /\ handle_data_IN_pull(pull)

\* uint32_t to_process = p->iov.size - copied: a negative difference wraps to
\* 2^32 + (a - b); the model's integers are 32-bit signed, so the wrapped value
\* is kept as their largest number, which like it exceeds every packet size
UInt32Sub(a, b) == IF a >= b THEN a - b ELSE 2147483647

\* lines 270-275: to_process = p->iov.size - copied; usb_packet_skip
usb_xblc_handle_data_IN_skip ==
    /\ ~aborted
    /\ \/ pc = "skip"
       \/ pc = "loop" /\ ~(copied < to_process)
    /\ to_process' = UInt32Sub(p.size, copied)
    /\ IF to_process' > 0
       THEN IF to_process' > p.size - p.actual_length
            THEN \* usb_packet_skip: assert(p->actual_length + bytes <= iov->size)
                 /\ aborted' = TRUE
                 /\ UNCHANGED p
            ELSE /\ p' = [p EXCEPT !.actual_length = @ + to_process',
                                   !.skipped = @ + to_process']
                 /\ UNCHANGED aborted
       ELSE UNCHANGED <<p, aborted>>
    /\ pc' = "done"
    /\ UNCHANGED <<dev_vars, streams, nalloc, copied, available, mig_vars, op>>

----------------------------------------------------------------------------
(* xblc_audio_channel_init: the channel, the streams and whether the open failed *)

\* variant: a rate left in the instance by an earlier phase is the one opened at
xblc_audio_channel_init_stale_rate(st, n, channel, capture, rate, open_ok) ==
    LET st1 == IF channel # NULL THEN SDL_DestroyAudioStream(st, channel) ELSE st
        freq == IF sample_rate # 0 THEN sample_rate ELSE rate
    IN IF open_ok
       THEN [channel |-> n + 1,
             streams |-> SDL_OpenAudioDeviceStream(st1, n + 1, capture, freq),
             nalloc |-> n + 1, failed |-> FALSE]
       ELSE [channel |-> NULL, streams |-> st1, nalloc |-> n, failed |-> TRUE]

xblc_audio_channel_init(st, n, channel, capture, rate, open_ok) ==
    LET st1 == IF channel # NULL THEN SDL_DestroyAudioStream(st, channel) ELSE st
    IN IF open_ok
       THEN [channel |-> n + 1,
             streams |-> SDL_OpenAudioDeviceStream(st1, n + 1, capture, rate),
             nalloc |-> n + 1, failed |-> FALSE]
       ELSE [channel |-> NULL, streams |-> st1, nalloc |-> n, failed |-> TRUE]

----------------------------------------------------------------------------
(* usb_xbox_communicator_realize *)
(* Error *err = NULL is shared by both opens.  warn_report_err(err) reports *)
(* and frees the error but err keeps pointing at it: a second failure makes *)
(* error_setg() fail its assertion that err is NULL; a second success makes  *)
(* if (err) report the freed error again, a use after free that either      *)
(* crashes or goes unnoticed.                                               *)

realize(cap_ok, play_ok, uaf_crash) ==
    LET c1 == xblc_audio_channel_init(streams, nalloc, NULL, TRUE,
                                      XBLC_DEFAULT_SAMPLE_RATE, cap_ok)
        c2 == xblc_audio_channel_init(c1.streams, c1.nalloc, NULL, FALSE,
                                      XBLC_DEFAULT_SAMPLE_RATE, play_ok)
        err_dangling == c1.failed
        setg_assert == err_dangling /\ c2.failed
        use_after_free == err_dangling /\ ~c2.failed
        warn1 == IF c1.failed THEN 1 ELSE 0
        warn2 == IF setg_assert THEN 0
                 ELSE IF err_dangling \/ c2.failed THEN 1 ELSE 0
    IN /\ sample_rate' = XBLC_DEFAULT_SAMPLE_RATE
       /\ in' = c1.channel
       /\ out' = c2.channel
       /\ streams' = c2.streams
       /\ nalloc' = c2.nalloc
       /\ aborted' = (setg_assert \/ (use_after_free /\ uaf_crash))
       /\ phase' = IF aborted' THEN phase ELSE "realized"
       /\ op' = [name |-> "realize", cap_ok |-> cap_ok, play_ok |-> play_ok,
                 warnings |-> warn1 + warn2, reported_twice |-> use_after_free,
                 rate_before |-> sample_rate]
       /\ NoTransfer
       /\ pc' = "done"
       /\ UNCHANGED <<auto_gain_control, mig_vars>>

usb_xbox_communicator_realize ==
    /\ ~aborted
    /\ phase \in {"constructed", "unrealized"}
    /\ pc = "idle"
    /\ \E cap_ok \in BOOLEAN, play_ok \in BOOLEAN, uaf_crash \in BOOLEAN :
          /\ uaf_crash => (~cap_ok /\ play_ok)
          /\ nalloc + (IF cap_ok THEN 1 ELSE 0) + (IF play_ok THEN 1 ELSE 0) <= MaxStreams
          /\ realize(cap_ok, play_ok, uaf_crash)

----------------------------------------------------------------------------
(* usb_xbox_communicator_unrealize *)

\* variant: the playback stream is left open
unrealize_streams_capture_only ==
    IF in # NULL THEN SDL_DestroyAudioStream(streams, in) ELSE streams

\* lines 347-355: the streams after both conditional destroys
unrealize_streams ==
    LET st1 == IF in # NULL THEN SDL_DestroyAudioStream(streams, in) ELSE streams
        st2 == IF out # NULL THEN SDL_DestroyAudioStream(st1, out) ELSE st1
    IN st2

\* variant: the handles keep pointing at the destroyed streams
usb_xbox_communicator_unrealize_keeps_handles ==
    /\ ~aborted
    /\ phase \in {"realized", "unrealized"}
    /\ ~restoring
    /\ pc = "idle"
    /\ streams' = unrealize_streams
    /\ phase' = "unrealized"
    /\ op' = [name |-> "unrealize", again |-> (phase = "unrealized")]
    /\ NoTransfer
    /\ pc' = "done"
    /\ UNCHANGED <<in, out, auto_gain_control, sample_rate, nalloc, aborted, mig_vars>>

usb_xbox_communicator_unrealize ==
    /\ ~aborted
    /\ phase \in {"realized", "unrealized"}
    /\ ~restoring
    /\ pc = "idle"
    /\ streams' = unrealize_streams
    /\ in' = NULL
    /\ out' = NULL
    /\ phase' = "unrealized"
    /\ op' = [name |-> "unrealize", again |-> (phase = "unrealized")]
    /\ NoTransfer
    /\ pc' = "done"
    /\ UNCHANGED <<auto_gain_control, sample_rate, nalloc, aborted, mig_vars>>

----------------------------------------------------------------------------
(* Migration: usb_xblc_vmstate *)

\* .fields = { VMSTATE_USB_DEVICE(dev, USBXBLCState), VMSTATE_END_OF_LIST() }
usb_xblc_vmstate == {"dev"}

\* the instance as the migration framework sees it, by field name
USBXBLCState ==
    [dev |-> "USBDevice", device_index |-> 0,
     auto_gain_control |-> auto_gain_control, sample_rate |-> sample_rate]

\* save: the fields usb_xblc_vmstate lists
vmstate_save ==
    /\ Idle
    /\ vm_record' = [taken |-> TRUE,
                     fields |-> [f \in usb_xblc_vmstate |-> USBXBLCState[f]]]
    /\ snap_rate' = sample_rate
    /\ op' = [name |-> "vmstate_save"]
    /\ NoTransfer
    /\ pc' = "done"
    /\ UNCHANGED <<dev_vars, streams, nalloc, aborted, restoring, n_in>>

\* the snapshotted instance is destroyed and a new one constructed (zeroed)
device_recreate ==
    /\ ~aborted
    /\ phase = "realized"
    /\ ~restoring
    /\ pc = "idle"
    /\ vm_record.taken
    /\ streams' = unrealize_streams
    /\ in' = NULL
    /\ out' = NULL
    /\ sample_rate' = 0
    /\ auto_gain_control' = 0
    /\ phase' = "constructed"
    /\ restoring' = TRUE
    /\ op' = [name |-> "device_recreate"]
    /\ NoTransfer
    /\ pc' = "done"
    /\ UNCHANGED <<nalloc, aborted, vm_record, snap_rate, n_in>>

\* the value a restored field takes: the record's, or the instance's own
LoadedField(f, current) ==
    IF f \in DOMAIN vm_record.fields THEN vm_record.fields[f] ELSE current

\* load: the record's fields are written into the realized instance; the
\* description has no post_load
vmstate_load ==
    /\ ~aborted
    /\ phase = "realized"
    /\ pc = "idle"
    /\ vm_record.taken
    /\ sample_rate' = LoadedField("sample_rate", sample_rate)
    /\ auto_gain_control' = LoadedField("auto_gain_control", auto_gain_control)
    /\ restoring' = FALSE
    /\ op' = [name |-> "vmstate_load", fresh |-> restoring]
    /\ NoTransfer
    /\ pc' = "done"
    /\ UNCHANGED <<phase, in, out, streams, nalloc, aborted, vm_record, snap_rate, n_in>>

----------------------------------------------------------------------------
(* The audio backend's own thread.  It runs at any moment of a handler; a  *)
(* step of it while the emulation thread is returning (pc = "done") reads   *)
(* and writes nothing the return touches, and is taken after the return.    *)

\* the recording device appends captured audio to the capture stream
backend_capture ==
    /\ ~aborted
    /\ pc # "done"
    /\ in # NULL
    /\ \E level \in CaptureLevels :
          /\ level > streams[in].buf
          /\ streams' = [streams EXCEPT ![in].buf = level]
    /\ UNCHANGED <<dev_vars, nalloc, p, pc, loc_vars, aborted, mig_vars, op>>

\* the playback device consumes what is queued in the playback stream
backend_playback ==
    /\ ~aborted
    /\ pc # "done"
    /\ out # NULL
    /\ streams[out].buf > 0
    /\ streams' = [streams EXCEPT ![out].buf = 0]
    /\ UNCHANGED <<dev_vars, nalloc, p, pc, loc_vars, aborted, mig_vars, op>>

----------------------------------------------------------------------------
(* The handler returns to the USB core: the packet is completed and the    *)
(* handler's locals are gone                                               *)

handler_return ==
    /\ ~aborted
    /\ pc = "done"
    /\ pc' = "idle"
    /\ op' = [name |-> "none"]
    /\ NoTransfer
    /\ UNCHANGED <<dev_vars, streams, nalloc, aborted, mig_vars>>

----------------------------------------------------------------------------
(* The device in operation: lifecycle, handlers and the backend's thread *)
Next ==
    \/ usb_xbox_communicator_realize
    \/ usb_xbox_communicator_unrealize
    \/ usb_xblc_handle_reset
    \/ usb_xblc_handle_control
    \/ usb_xblc_handle_data_OUT
    \/ usb_xblc_handle_data_IN
    \/ usb_xblc_handle_data_IN_pull
    \/ usb_xblc_handle_data_IN_skip
    \/ handler_return
    \/ backend_capture
    \/ backend_playback

Spec == Init /\ [][Next]_vars

(* Snapshot and restore of the configured device: no transfers in flight *)
NextMigration ==
    \/ usb_xbox_communicator_realize
    \/ usb_xblc_handle_reset
    \/ usb_xblc_handle_control
    \/ vmstate_save
    \/ device_recreate
    \/ vmstate_load
    \/ handler_return

SpecMigration == Init /\ [][NextMigration]_vars
----------------------------------------------------------------------------
(* Properties *)

\* the rate table and the latency bound as the specification states them
SpecifiedRates == <<8000, 11025, 16000, 22050, 24000>>

\* format frequency of a channel, 0 for a null channel
Freq(h) == IF h # NULL THEN streams[h].freq ELSE 0

\* bytes of the packet that were copied from the capture stream
Copied == p.actual_length - p.skipped

\* C1: a vendor/interface set-feature request with index 0 whose value has low
\* byte i in 0..4, not handled by the descriptor handler, leaves the sample
\* rate at SpecifiedRates[i], and every non-null channel's format frequency
\* equals that rate after the call.
C1_SetRateAppliesTable ==
    [][\A v \in Values :
          (/\ Idle
           /\ v % 256 \in 0..4
           /\ handle_control(SetFeatureRequest, v, 0, TRUE))
          => /\ sample_rate' = SpecifiedRates[(v % 256) + 1]
             /\ in' # NULL => streams'[in'].freq = sample_rate'
             /\ out' # NULL => streams'[out'].freq = sample_rate'
             /\ p'.status = "SUCCESS"
             /\ ~aborted']_vars

\* C1: a rate request with value 0x104 (low byte 4) has returned on a device
\* with both channels open: rate and both formats are 24000
C1_Witness ==
    /\ op.name = "control"
    /\ pc = "done"
    /\ ~aborted
    /\ sample_rate = 24000
    /\ in # NULL /\ out # NULL
    /\ Freq(in) = 24000 /\ Freq(out) = 24000

\* C2: a set-sample-rate request (index 0) whose value has a low byte outside
\* 0..4 leaves the sample rate and both channels' formats unchanged, marks the
\* transfer stalled, and the device keeps operating.
C2_OutOfRangeRateStalls ==
    [][\A v \in Values :
          (/\ Idle
           /\ v % 256 \notin 0..4
           /\ handle_control(SetFeatureRequest, v, 0, TRUE))
          => /\ sample_rate' = sample_rate
             /\ streams' = streams
             /\ p'.status = "STALL"
             /\ ~aborted']_vars

\* C3: a control request the descriptor handler does not handle and that is
\* not a vendor/interface set-feature with index 0 or 1 marks the transfer
\* stalled, changes neither sample rate, AGC flag nor channels, and does not
\* abort: the device can still run its handlers.
C3_UnknownRequestStalls ==
    [][\A request \in Requests, v \in Values, index \in Indexes, desc_ok \in BOOLEAN :
          (/\ Idle
           /\ ~usb_desc_handle_control(request, desc_ok)
           /\ ~(request = SetFeatureRequest /\ index \in {0, 1})
           /\ handle_control(request, v, index, desc_ok))
          => /\ p'.status = "STALL"
             /\ sample_rate' = sample_rate
             /\ auto_gain_control' = auto_gain_control
             /\ in' = in /\ out' = out
             /\ streams' = streams
             /\ ~aborted']_vars

\* C4: on a capture-direction transfer (IN, on the capture endpoint) with a
\* non-null capture channel: if the bytes available are strictly greater than
\* sampleRate * 2 * 100 / 1000 the channel's buffer is cleared and available is
\* 0 before any byte is copied, and the transfer copies 0 bytes whatever the
\* backend appends afterwards; if available is at most that threshold nothing
\* is discarded.
C4_OverflowDiscardsAtRead ==
    /\ [][\A size \in Sizes :
            (/\ Idle
             /\ in # NULL
             /\ handle_data_IN_query(XBLC_EP_IN, size, TRUE))
            => IF streams[in].buf * 1000 > sample_rate * 2 * 100
               THEN /\ streams'[in].buf = 0
                    /\ available' = 0
                    /\ to_process' = 0
                    /\ copied' = 0
                    /\ p'.actual_length = 0
               ELSE /\ streams' = streams
                    /\ available' = streams[in].buf]_vars
    /\ [](op.name = "data_in" /\ op.discarded > 0
            => /\ copied = 0
               /\ Copied = 0
               /\ (pc = "done" /\ ~aborted => p.skipped = p.size))

\* C4: a capture transfer that found exactly 1648 bytes queued at 8000 Hz
\* (threshold 1600) has discarded them and returned with nothing copied
C4_Witness ==
    /\ op.name = "data_in"
    /\ pc = "done"
    /\ sample_rate = 8000
    /\ op.discarded = 1648
    /\ Copied = 0
    /\ p.skipped = p.size
\* C5: a capture-direction transfer on a non-null channel that requests more
\* bytes than the channel has available (available within the overflow
\* threshold, no backend call failing) copies exactly `available` bytes, marks
\* the remaining requested - available bytes skipped and sets no error status.
C5_ShortReadCopiesAvailable ==
    (/\ op.name = "data_in"
     /\ pc = "done"
     /\ ~aborted
     /\ p.nr = XBLC_EP_IN
     /\ in # NULL
     /\ available >= 0
     /\ op.discarded = 0
     /\ ~op.pull_failed
     /\ p.size > available)
    => /\ Copied = available
       /\ copied = available
       /\ p.skipped = p.size - available
       /\ p.status = "SUCCESS"

\* C6: a capture-direction transfer while the capture channel is null copies
\* no byte and marks the entire requested length skipped, as a non-null channel
\* with 0 bytes available does.
C6_NullCaptureSkipsAll ==
    (/\ op.name = "data_in"
     /\ pc = "done"
     /\ ~aborted
     /\ p.nr = XBLC_EP_IN
     /\ in = NULL)
    => /\ Copied = 0
       /\ p.skipped = p.size

\* C7: after the rate was 22050 at snapshot time, the device was destroyed and
\* restored from the snapshot (re-realized, record loaded), the restored
\* sample rate is 22050, both channels report 22050, and the record carries
\* the sample rate.
C7_RestoreKeepsRate ==
    (/\ op.name = "vmstate_load"
     /\ op.fresh
     /\ snap_rate = 22050)
    => /\ sample_rate = 22050
       /\ in # NULL => Freq(in) = 22050
       /\ out # NULL => Freq(out) = 22050
       /\ "sample_rate" \in DOMAIN vm_record.fields

\* C8: for every combination of outcomes of the two opens, realize reports one
\* warning per failed open, leaves the failed channel null, keeps the other
\* open's result, reports no error twice and completes with the device
\* operational.
C8_RealizeSurvivesOpenFailures ==
    op.name = "realize"
    => /\ ~aborted
       /\ phase = "realized"
       /\ op.warnings = (IF op.cap_ok THEN 0 ELSE 1) + (IF op.play_ok THEN 0 ELSE 1)
       /\ ~op.reported_twice
       /\ (in # NULL) = op.cap_ok
       /\ (out # NULL) = op.play_ok

\* C9: a reset, wherever it falls among control and data handling, changes
\* neither the sample rate, the AGC flag nor which channel handles are null;
\* its only effect is that the buffer of each non-null channel becomes empty.
C9_ResetClearsBuffersOnly ==
    [][usb_xblc_handle_reset
          => /\ sample_rate' = sample_rate
             /\ auto_gain_control' = auto_gain_control
             /\ in' = in /\ out' = out
             /\ phase' = phase
             /\ ~aborted'
             /\ \A h \in Handles :
                   streams'[h] = IF h \in {in, out}
                                 THEN [streams[h] EXCEPT !.buf = 0]
                                 ELSE streams[h]]_vars

\* C9: a reset has returned after rate and AGC were changed and capture
\* transfers were handled; it emptied both channels' buffers, 96 playback
\* bytes among them
C9_Witness ==
    /\ op.name = "reset"
    /\ pc = "done"
    /\ op.discarded > 96
    /\ n_in > 0
    /\ sample_rate = 11025
    /\ auto_gain_control = 1
    /\ in # NULL /\ out # NULL
    /\ streams[in].buf = 0 /\ streams[out].buf = 0

\* C10: a playback-direction transfer (OUT, on the playback endpoint) with a
\* non-null playback channel pushes the entire payload: unless the push fails
\* the channel's buffered byte count grows by exactly the payload length; with
\* a null playback channel no device or channel state changes.  Neither case
\* gives the transfer an error status.
C10_PlaybackPushesPayload ==
    [][\A size \in Sizes, push_ok \in BOOLEAN :
          (/\ Idle
           /\ handle_data_OUT(XBLC_EP_OUT, size, push_ok))
          => /\ IF out # NULL /\ push_ok
                THEN streams' = [streams EXCEPT ![out].buf = @ + size]
                ELSE streams' = streams
             /\ sample_rate' = sample_rate
             /\ auto_gain_control' = auto_gain_control
             /\ in' = in /\ out' = out
             /\ p'.status = "SUCCESS"
             /\ ~aborted']_vars

\* C10: a 100-byte playback transfer has returned with the playback channel
\* holding exactly its 100 bytes
C10_Witness ==
    /\ op.name = "data_out"
    /\ pc = "done"
    /\ ~aborted
    /\ p.size = 100
    /\ out # NULL
    /\ streams[out].buf = 100

\* C11: unrealize from a realized state, whichever of the two channels are
\* open, leaves both handles null, turns every stream a handle referred to
\* into a destroyed stream that received exactly one destroy call, and touches
\* no other stream; unrealize of an instance already unrealized (both handles
\* null) destroys nothing and changes no device or backend state.
C11_UnrealizeDestroysOnce ==
    [][usb_xbox_communicator_unrealize
          => /\ in' = NULL /\ out' = NULL
             /\ ~aborted'
             /\ \A h \in Handles :
                   IF h \in {in, out}
                   THEN /\ streams[h].state = "open"
                        /\ streams'[h].state = "destroyed"
                        /\ streams'[h].destroys = 1
                   ELSE streams'[h] = streams[h]
             /\ (phase = "unrealized")
                   => /\ in = NULL /\ out = NULL
                      /\ streams' = streams
                      /\ <<phase, auto_gain_control, sample_rate, in, out>>'
                            = <<phase, auto_gain_control, sample_rate, in, out>>]_vars

\* C11: a second unrealize has returned on an instance whose two channels the
\* first one destroyed: two destroyed streams, each destroyed once
C11_Witness ==
    /\ op.name = "unrealize"
    /\ pc = "done"
    /\ op.again
    /\ in = NULL /\ out = NULL
    /\ Cardinality({h \in Handles : streams[h].state = "destroyed"
                                      /\ streams[h].destroys = 1}) = 2
    /\ \A h \in Handles : streams[h].state # "open"

\* C12: a set-sample-rate request that succeeds reformats the existing
\* channels in place: both handles are what they were (a null one stays null),
\* no stream is opened or destroyed, every stream keeps its buffered bytes and
\* its running state, only the frequency of the device's channels changes;
\* a request for the rate the device already has changes no device or stream
\* state, and applying the change to its own result gives that result again.
C12_ReformatInPlace ==
    [][\A v \in Values :
          (/\ Idle
           /\ RateIndex(v) < Len(xblc_sample_rates)
           /\ handle_control(SetFeatureRequest, v, XBLC_SET_SAMPLE_RATE, TRUE))
          => /\ in' = in /\ out' = out
             /\ nalloc' = nalloc
             /\ ~aborted'
             /\ \A h \in Handles :
                   streams'[h] = IF h \in {in, out}
                                 THEN [streams[h] EXCEPT !.freq = sample_rate']
                                 ELSE streams[h]
             /\ \A h \in Handles : streams'[h].buf = streams[h].buf
             /\ xblc_audio_stream_set_rate(streams', sample_rate')
                   = [sample_rate |-> sample_rate', streams |-> streams']
             /\ (sample_rate' = sample_rate)
                   => /\ streams' = streams
                      /\ auto_gain_control' = auto_gain_control]_vars

\* C12: a request for 22050 Hz has returned on a device that was already at
\* 22050 Hz, with both channels open and audio buffered in each of them
C12_Witness ==
    /\ op.name = "control"
    /\ pc = "done"
    /\ ~aborted
    /\ op.feature = XBLC_SET_SAMPLE_RATE
    /\ op.value = 3
    /\ op.rate_before = 22050
    /\ sample_rate = 22050
    /\ in # NULL /\ out # NULL
    /\ Freq(in) = 22050 /\ Freq(out) = 22050
    /\ streams[in].buf = 50
    /\ streams[out].buf = 100

\* C13: the pull loop of the capture-direction handler ends when the target
\* min(requested, available) is copied or when a pull yields nothing: once a
\* pull has returned 0 bytes or an error the handler is out of the loop, so
\* it cannot stay in the loop with copied < target pulling again.
C13_EmptyPullEndsLoop ==
    (/\ op.name = "data_in"
     /\ ~aborted
     /\ (op.empty_pulls > 0 \/ op.pull_failed))
    => pc # "loop"

\* C14: in every state of a realized device the sample rate is one of 8000,
\* 11025, 16000, 22050, 24000 and so is the frequency of every open stream:
\* realize sets 16000, and neither control requests (accepted or rejected),
\* data transfers, resets nor restores give the device or a channel's format
\* another value.
C14_RateAlwaysInTable ==
    /\ [](phase = "realized"
            => /\ \E i \in 1..Len(SpecifiedRates) : sample_rate = SpecifiedRates[i]
               /\ \A h \in Handles :
                     streams[h].state = "open"
                        => \E i \in 1..Len(SpecifiedRates) :
                              streams[h].freq = SpecifiedRates[i])
    /\ [][usb_xbox_communicator_realize => sample_rate' = 16000]_vars
    /\ [][(sample_rate' # sample_rate /\ phase = "realized" /\ phase' = "realized")
            => /\ op'.name = "control"
               /\ op'.feature = XBLC_SET_SAMPLE_RATE
               /\ op'.value % 256 \in 0..4
               /\ sample_rate' = SpecifiedRates[(op'.value % 256) + 1]]_vars

\* C14: a rate request with index 5 was rejected on a device that had been
\* set to 11025 Hz and had handled a capture transfer: rate and formats are
\* still 11025
C14_Witness ==
    /\ op.name = "control"
    /\ op.feature = XBLC_SET_SAMPLE_RATE
    /\ op.value = 5
    /\ phase = "realized"
    /\ n_in > 0
    /\ sample_rate = 11025
    /\ in # NULL /\ out # NULL
    /\ Freq(in) = 11025 /\ Freq(out) = 11025

\* C15: in every reachable state each of the two channel handles is null or
\* refers to an open stream of its own direction whose format is one channel,
\* signed 16-bit little-endian, at the device's current sample rate.
C15_HandlesBoundToFormat ==
    /\ in # NULL
          => /\ streams[in].state = "open"
             /\ streams[in].capture
             /\ streams[in].channels = 1
             /\ streams[in].format = "S16LE"
             /\ streams[in].freq = sample_rate
    /\ out # NULL
          => /\ streams[out].state = "open"
             /\ ~streams[out].capture
             /\ streams[out].channels = 1
             /\ streams[out].format = "S16LE"
             /\ streams[out].freq = sample_rate

\* C15: a reset has returned on a device that was set to 8000 Hz, both of
\* its channels open and formatted mono S16LE at 8000 Hz
C15_Witness ==
    /\ op.name = "reset"
    /\ pc = "done"
    /\ sample_rate = 8000
    /\ in # NULL /\ out # NULL
    /\ streams[in].state = "open" /\ streams[out].state = "open"
    /\ streams[in].channels = 1 /\ streams[out].channels = 1
    /\ Freq(in) = 8000 /\ Freq(out) = 8000

\* C16: a vendor/interface set-feature request with index 1 stores 1 in the
\* AGC flag when its value is not 0 and 0 when it is 0; sample rate, handles
\* and every stream (format, buffered bytes) stay as they were and the
\* transfer is neither stalled nor fatal.  The data handlers neither write nor
\* read the flag: what a playback transfer pushes and what a capture transfer
\* targets and pulls is given by the transfer and the streams alone.
C16_AgcStoredOnly ==
    /\ [][\A v \in Values :
            (/\ Idle
             /\ handle_control(SetFeatureRequest, v, 1, TRUE))
            => /\ auto_gain_control' = (IF v = 0 THEN 0 ELSE 1)
               /\ sample_rate' = sample_rate
               /\ in' = in /\ out' = out
               /\ streams' = streams
               /\ nalloc' = nalloc
               /\ phase' = phase
               /\ p'.status = "SUCCESS"
               /\ ~aborted']_vars
    /\ [][(op'.name \in {"data_in", "data_out"})
            => auto_gain_control' = auto_gain_control]_vars
    /\ [][\A size \in Sizes :
            (/\ Idle /\ out # NULL
             /\ handle_data_OUT(XBLC_EP_OUT, size, TRUE))
            => streams'[out].buf = streams[out].buf + size]_vars
    /\ [][\A size \in Sizes :
            (/\ Idle /\ in # NULL
             /\ handle_data_IN_query(XBLC_EP_IN, size, TRUE))
            => to_process' = (IF streams[in].buf * 1000 > sample_rate * 2 * 100
                              THEN 0
                              ELSE IF size < streams[in].buf THEN size
                              ELSE streams[in].buf)]_vars
    /\ [][(~aborted /\ pc = "loop" /\ copied < to_process
             /\ handle_data_IN_pull("data") /\ ~aborted')
            => LET asked == IF to_process < 48 THEN to_process ELSE 48
               IN copied' - copied = (IF asked < streams[in].buf THEN asked
                                      ELSE streams[in].buf)]_vars

\* C16: a set-AGC request with value 0x104 has returned on a device set to
\* 22050 Hz holding 100 playback bytes: the flag is 1, the rest as it was
C16_Witness ==
    /\ op.name = "control"
    /\ pc = "done"
    /\ ~aborted
    /\ op.feature = XBLC_SET_AGC
    /\ op.value = 260
    /\ auto_gain_control = 1
    /\ sample_rate = 22050
    /\ out # NULL
    /\ Freq(out) = 22050
    /\ streams[out].buf = 100

\* C17: a capture-direction transfer during which a backend call failed (the
\* available-bytes query or a pull returned a negative value) copies nothing
\* after the failure and returns with every requested byte that was not
\* copied marked untransferred; no step of the transfer changes sample rate,
\* AGC flag or channel handles.
C17_BackendFailureYieldsNothing ==
    /\ []((/\ op.name = "data_in"
            /\ pc = "done"
            /\ ~aborted
            /\ p.nr = XBLC_EP_IN
            /\ in # NULL
            /\ (available < 0 \/ op.pull_failed))
           => /\ Copied = copied
              /\ p.skipped = p.size - Copied
              /\ p.actual_length = p.size)
    /\ [][(op'.name = "data_in")
            => <<sample_rate, auto_gain_control, in, out>>'
                  = <<sample_rate, auto_gain_control, in, out>>]_vars

\* C18: every realize, the first one and one that follows an unrealize of an
\* instance whose rate had been changed, leaves the sample rate at 16000 and
\* every channel it opened formatted at 16000 Hz and running: the rate of the
\* previous realized phase is gone.
C18_RealizeRestoresDefault ==
    [][usb_xbox_communicator_realize
          => /\ sample_rate' = 16000
             /\ in' # NULL
                   => /\ streams[in'].state = "unused"
                      /\ streams'[in'].state = "open"
                      /\ streams'[in'].freq = 16000
                      /\ streams'[in'].running
             /\ out' # NULL
                   => /\ streams[out'].state = "unused"
                      /\ streams'[out'].state = "open"
                      /\ streams'[out'].freq = 16000
                      /\ streams'[out'].running]_vars

\* C18: a realize has returned on an instance that was unrealized at 24000
\* Hz: the rate is 16000 and the two channels it opened run at 16000 Hz
C18_Witness ==
    /\ op.name = "realize"
    /\ pc = "done"
    /\ ~aborted
    /\ phase = "realized"
    /\ op.rate_before = 24000
    /\ sample_rate = 16000
    /\ in # NULL /\ out # NULL
    /\ Freq(in) = 16000 /\ Freq(out) = 16000
    /\ streams[in].running /\ streams[out].running
    /\ \E h \in Handles : streams[h].state = "destroyed"

\* C19: during and after every capture-direction transfer on a non-null
\* channel whose available-bytes query succeeded, whatever the backend appends
\* meanwhile and however short a pull is, the bytes copied never exceed
\* min(requested, available), no copy or skip overruns the packet, and the
\* returned packet has copied + skipped = requested.
C19_CopiedWithinTarget ==
    (/\ op.name = "data_in"
     /\ p.nr = XBLC_EP_IN
     /\ in # NULL
     /\ available >= 0)
    => /\ ~aborted
       /\ copied <= Min(p.size, available)
       /\ Copied <= p.size
       /\ (pc = "done") => (Copied + p.skipped = p.size)

\* C20: the backend is only ever called on a handle that is non-null and not
\* destroyed.  The handlers call it on s->in and s->out only: in every state
\* a non-null handle refers to an open stream, the capture handler is inside
\* its pull loop only with a non-null capture handle, no stream receives a
\* second destroy, and a step changes a stream only if it was open and is one
\* of the device's two channels, or if the step opens it.
C20_BackendCallsOnLiveHandles ==
    /\ [](/\ in # NULL => streams[in].state = "open"
          /\ out # NULL => streams[out].state = "open"
          /\ pc \in {"loop", "skip"} => in # NULL
          /\ \A h \in Handles : streams[h].destroys <= 1)
    /\ [][\A h \in Handles :
            streams'[h] # streams[h]
               => \/ streams[h].state = "open" /\ h \in {in, out}
                  \/ /\ streams[h].state = "unused"
                     /\ streams'[h].state = "open"
                     /\ h \in {in', out'}]_vars

\* C20: a reset has returned on a re-realized device whose playback open
\* failed: it emptied the capture stream, the playback handle is null and the
\* streams of the previous phase stay destroyed
C20_Witness ==
    /\ op.name = "reset"
    /\ pc = "done"
    /\ op.discarded > 0
    /\ in # NULL
    /\ out = NULL
    /\ streams[in].state = "open"
    /\ Cardinality({h \in Handles : streams[h].state = "destroyed"}) = 2
=============================================================================
